---- MODULE Spec2Model ----
(***************************************************************************)
(* A model of refraction-calc: the bisection root finder of main.rs        *)
(* (find_dist_for_h), the output loop of main, the argument handling of    *)
(* params.rs (parse_arguments, create_path) and the ray state of           *)
(* ray_state.rs (calc_derivative_flat, calc_derivative_spherical,          *)
(* shift_in_place).                                                        *)
(*                                                                         *)
(* Numbers.  The program computes in f64.  The model computes exactly:     *)
(*  - distances of the bisection are fixed-point numbers with 34 binary    *)
(*    fraction digits, which represents every bracket end and midpoint of  *)
(*    find_dist_for_h exactly (5000e3 = 2^6 * 5^7 halved at most 40        *)
(*    times).  f64 rounds the last few midpoints by at most 2^-30 m, far   *)
(*    below the 1e-5 m tolerance; that rounding is not modelled;           *)
(*  - altitudes, slopes and step amounts of the ray state are integers;    *)
(*    a division is truncating, and a division by zero yields NonFinite    *)
(*    (the inf/NaN of f64).                                                *)
(***************************************************************************)
EXTENDS Integers, Sequences, FiniteSets, TLC

VARIABLES
    \* find_dist_for_h (main.rs:6-20)
    ray,        \* the Path being searched
    tgt_h,      \* the target altitude, metres
    min_dist,   \* lower end of the bracket
    max_dist,   \* upper end of the bracket
    bpc,        \* "loop" while in the while loop, "done" after the return
    ret,        \* the value returned
    iters,      \* history: iterations of the loop so far
    above,      \* history: probes that found h > tgt_h
    prev,       \* history: the bracket before the last iteration
    \* main (main.rs:22-102) with parse_arguments and create_path (params.rs)
    matches,    \* the command line as clap hands it over
    world,      \* what the ray-casting library answers for the Path
    params,     \* the Params parse_arguments returned, or its panic
    path,       \* the Path create_path returned
    mpc,        \* "start", "parsed", "output", "done" or "aborted"
    outi,       \* index of the next entry of params.output to print
    printed,    \* the lines printed, in order
    \* the ray state (ray_state.rs)
    shape,      \* EarthShape: Flat or Spherical { radius }
    atm,        \* the Atmosphere
    state,      \* the RayState being advanced
    start,      \* history: the RayState at x = 0
    last,       \* history: the last step (amount, derivative, state before,
                \* and whether no amount so far was negative)
    steps,      \* history: steps taken
    status      \* "running", or "non_finite" once a field is inf or NaN

bisectVars == <<ray, tgt_h, min_dist, max_dist, bpc, ret, iters, above, prev>>

mainVars == <<matches, world, params, path, mpc, outi, printed>>

rayVars == <<shape, atm, state, start, last, steps, status>>

vars == <<bisectVars, mainVars, rayVars>>

----------------------------------------------------------------------------
(* Fixed-point distances: <<hi, lo>> stands for (hi * LimbBase + lo) units  *)
(* of 2^-34 m; lo < LimbBase.  One metre is 2^6 in hi.                      *)

LimbBase == 2^28

HiPerMetre == 2^6

Metres(m) == <<m * HiPerMetre, 0>>

DZero == <<0, 0>>

DAdd(a, b) ==
    LET lo == a[2] + b[2]
    IN  <<a[1] + b[1] + (lo \div LimbBase), lo % LimbBase>>

\* a - b for a >= b
DSub(a, b) ==
    IF a[2] >= b[2] THEN <<a[1] - b[1], a[2] - b[2]>>
                    ELSE <<a[1] - b[1] - 1, a[2] + LimbBase - b[2]>>

\* 0.5 * a
DHalf(a) ==
    <<a[1] \div 2, (a[1] % 2) * (LimbBase \div 2) + (a[2] \div 2)>>

DLess(a, b) == a[1] < b[1] \/ (a[1] = b[1] /\ a[2] < b[2])

DLeq(a, b) == ~DLess(b, a)

DDist(a, b) == IF DLess(a, b) THEN DSub(b, a) ELSE DSub(a, b)

DEven(a) == a[2] % 2 = 0

----------------------------------------------------------------------------
(* find_dist_for_h                                                          *)

\* let (mut min_dist, mut max_dist) = (0.0, 5000e3);
SearchMax == 5000000

InitBracket == <<DZero, Metres(SearchMax)>>

\* The literal 0.00001 of the loop condition, as 1 / ToleranceInv metres.
ToleranceInv == 100000

\* 1e-5 m is 2^34 / 10^5 = 2^29 / 5^5 = 171798.69.. units: a whole number of
\* units exceeds 1e-5 m exactly when it exceeds the floor of that quotient.
Tolerance == <<0, (2^29) \div (ToleranceInv \div 2^5)>>

\* LoopGuard with a tolerance of 2^-10 m
LoopGuardCoarse(mn, mx) == DLess(<<0, 2^24>>, DSub(mx, mn))

\* max_dist - min_dist > 0.00001
LoopGuard(mn, mx) == DLess(Tolerance, DSub(mx, mn))

\* 0.5 * (min_dist + max_dist)
Midpoint(mn, mx) == DHalf(DAdd(mn, mx))

(* A Path is external to the repository (atm_refraction::Path): the model  *)
(* takes it as an input, a piecewise-constant altitude profile             *)
(*   h = h1 on [0, c1), h2 on [c1, c2), h3 on [c2, ...)                    *)
(* with an angle profile a1, a2, a3 on the same pieces.                    *)
h_at_dist(p, d) ==
    IF DLess(d, p.c1) THEN p.h1
    ELSE IF DLess(d, p.c2) THEN p.h2
    ELSE p.h3

\* let h = ray.h_at_dist(cur_dist); if h > tgt_h
Probe(p, t, mn, mx) == h_at_dist(p, Midpoint(mn, mx)) > t

\* BisectStep with the two arms of the if exchanged
BisectStepSwapped(p, t, mn, mx) ==
    LET cur_dist == Midpoint(mn, mx)
        h == h_at_dist(p, cur_dist)
    IN  IF h > t THEN <<cur_dist, mx>> ELSE <<mn, cur_dist>>

\* BisectStep with h >= tgt_h for h > tgt_h
BisectStepGeq(p, t, mn, mx) ==
    LET cur_dist == Midpoint(mn, mx)
        h == h_at_dist(p, cur_dist)
    IN  IF h >= t THEN <<mn, cur_dist>> ELSE <<cur_dist, mx>>

\* One iteration of the loop body: the new <<min_dist, max_dist>>.
BisectStep(p, t, mn, mx) ==
    LET cur_dist == Midpoint(mn, mx)
        h == h_at_dist(p, cur_dist)
    IN  IF h > t THEN <<mn, cur_dist>> ELSE <<cur_dist, mx>>

RECURSIVE Bisect(_, _, _, _)
Bisect(p, t, mn, mx) ==
    IF LoopGuard(mn, mx)
    THEN LET b == BisectStep(p, t, mn, mx) IN Bisect(p, t, b[1], b[2])
    ELSE Midpoint(mn, mx)

find_dist_for_h(p, t) == Bisect(p, t, InitBracket[1], InitBracket[2])

----------------------------------------------------------------------------
(* Inputs of the bisection                                                  *)

\* Break points of the profiles: on and off the grid of midpoints, near
\* both ends of the bracket.
Breaks ==
    { <<0, 1>>,                         \* 2^-34 m
      <<307200, 12345>>,                \* 4.8 km and a fraction
      Metres(2500000),                  \* the first midpoint
      <<200000001, 7>>,                 \* about 3125 km
      DSub(Metres(SearchMax), <<0, 3>>),
      Metres(SearchMax) }

\* Altitudes of the pieces, metres.
Alts == {0, 1, 200000, 300000}

\* Targets: a starting altitude of 1 m, and 2e5 m (main.rs:64).
Targets == {1, 200000}

Profiles ==
    { [c1 |-> a, c2 |-> b, h1 |-> x, h2 |-> y, h3 |-> z,
       a1 |-> 0, a2 |-> 0, a3 |-> 0] :
        a \in Breaks, b \in Breaks, x \in Alts, y \in Alts, z \in Alts }

NoProfile ==
    [c1 |-> DZero, c2 |-> DZero, h1 |-> 0, h2 |-> 0, h3 |-> 0,
     a1 |-> 0, a2 |-> 0, a3 |-> 0]

BisectPaths == { p \in Profiles : DLess(p.c1, p.c2) }

BisectStart(p) ==
    /\ ray = p
    /\ tgt_h \in IF p = NoProfile THEN {0} ELSE Targets
    /\ min_dist = InitBracket[1]
    /\ max_dist = InitBracket[2]
    /\ bpc = "loop"
    /\ ret = DZero
    /\ iters = 0
    /\ above = 0
    /\ prev = InitBracket

\* while max_dist - min_dist > 0.00001 { ... }
Iterate ==
    /\ bpc = "loop"
    /\ LoopGuard(min_dist, max_dist)
    /\ LET b == BisectStep(ray, tgt_h, min_dist, max_dist)
       IN  /\ min_dist' = b[1]
           /\ max_dist' = b[2]
    /\ iters' = iters + 1
    /\ above' = above + (IF Probe(ray, tgt_h, min_dist, max_dist) THEN 1 ELSE 0)
    /\ prev' = <<min_dist, max_dist>>
    /\ UNCHANGED <<ray, tgt_h, bpc, ret>>
    /\ UNCHANGED <<mainVars, rayVars>>

\* 0.5 * (min_dist + max_dist)
Return ==
    /\ bpc = "loop"
    /\ ~LoopGuard(min_dist, max_dist)
    /\ ret' = Midpoint(min_dist, max_dist)
    /\ bpc' = "done"
    /\ UNCHANGED <<ray, tgt_h, min_dist, max_dist, iters, above, prev>>
    /\ UNCHANGED <<mainVars, rayVars>>

BisectNext == Iterate \/ Return


----------------------------------------------------------------------------
(* Properties of find_dist_for_h                                            *)

SearchEnd == InitBracket[2]

\* The altitude never falls / never rises with distance.
NonDecreasing(p) == p.h1 <= p.h2 /\ p.h2 <= p.h3

NonIncreasing(p) == p.h1 >= p.h2 /\ p.h2 >= p.h3

\* The least distance at which the altitude exceeds t, is at most t, is
\* below t (SearchEnd when there is none in the profile).
FirstAbove(p, t) ==
    IF p.h1 > t THEN DZero ELSE IF p.h2 > t THEN p.c1
    ELSE IF p.h3 > t THEN p.c2 ELSE SearchEnd

FirstAtMost(p, t) ==
    IF p.h1 <= t THEN DZero ELSE IF p.h2 <= t THEN p.c1
    ELSE IF p.h3 <= t THEN p.c2 ELSE SearchEnd

FirstBelow(p, t) ==
    IF p.h1 < t THEN DZero ELSE IF p.h2 < t THEN p.c1
    ELSE IF p.h3 < t THEN p.c2 ELSE SearchEnd

\* |a - b| <= 1e-5 m
Within(a, b) == DLeq(DDist(a, b), Tolerance)

\* a is within 1e-5 m of the interval [lo, hi]
WithinOf(a, lo, hi) == DLeq(lo, DAdd(a, Tolerance)) /\ DLeq(a, DAdd(hi, Tolerance))

\* C1, as stated: for a path whose altitude is monotonic non-increasing over
\* [0, 5000 km] and crosses tgt_h inside the bracket, the value returned is
\* within 1e-5 m of the crossing (of the stretch from where the altitude
\* reaches tgt_h to where it falls below it).
C1_NonIncreasingFindsCrossing ==
    (/\ bpc = "done"
     /\ NonIncreasing(ray)
     /\ h_at_dist(ray, DZero) > tgt_h
     /\ h_at_dist(ray, SearchEnd) < tgt_h)
    => WithinOf(ret, FirstAtMost(ray, tgt_h), FirstBelow(ray, tgt_h))

\* C1, amended: for a path whose altitude is monotonic non-decreasing over
\* [0, 5000 km] with h_at_dist(0) <= tgt_h < h_at_dist(5000 km), the value
\* returned is within 1e-5 m of the distance at which the altitude first
\* exceeds tgt_h.
C1_NonDecreasingFindsCrossing ==
    (/\ bpc = "done"
     /\ NonDecreasing(ray)
     /\ h_at_dist(ray, DZero) <= tgt_h
     /\ tgt_h < h_at_dist(ray, SearchEnd))
    => Within(ret, FirstAbove(ray, tgt_h))

\* A rising path with its crossing strictly inside the bracket, searched to
\* the end, both branches of the loop taken.
C1_Witness ==
    /\ bpc = "done"
    /\ NonDecreasing(ray)
    /\ h_at_dist(ray, DZero) <= tgt_h
    /\ tgt_h < h_at_dist(ray, SearchEnd)
    /\ ray.h2 = tgt_h
    /\ 0 < above /\ above < iters
    /\ Within(ret, ray.c2)

\* C2: every iteration probes the midpoint of the bracket and keeps
\* [min, mid] when h_at_dist(mid) > tgt_h, else [mid, max]; so if
\* h_at_dist(0) <= tgt_h < h_at_dist(5000 km) on entry, then
\* h_at_dist(min_dist) <= tgt_h < h_at_dist(max_dist) after every iteration
\* and for the final bracket, whose midpoint is returned.
C2_BracketInvariant ==
    /\ iters > 0 =>
          LET mid == Midpoint(prev[1], prev[2])
          IN  IF h_at_dist(ray, mid) > tgt_h
              THEN min_dist = prev[1] /\ max_dist = mid
              ELSE min_dist = mid /\ max_dist = prev[2]
    /\ (h_at_dist(ray, DZero) <= tgt_h /\ tgt_h < h_at_dist(ray, SearchEnd))
          => /\ h_at_dist(ray, min_dist) <= tgt_h
             /\ tgt_h < h_at_dist(ray, max_dist)
    /\ bpc = "done" => ret = Midpoint(min_dist, max_dist)

\* A search of a bracketed, non-monotonic path that ended after moving both
\* ends of the bracket.
C2_Witness ==
    /\ bpc = "done"
    /\ h_at_dist(ray, DZero) <= tgt_h /\ tgt_h < h_at_dist(ray, SearchEnd)
    /\ ~NonDecreasing(ray)
    /\ min_dist # DZero /\ max_dist # SearchEnd

RECURSIVE HalvedTimes(_, _)
HalvedTimes(d, k) == IF k = 0 THEN d ELSE HalvedTimes(DHalf(d), k - 1)

\* The number of halvings after which 5000 km is no longer above 1e-5 m.
IterationBound ==
    CHOOSE k \in 0..64 :
        /\ DLeq(HalvedTimes(SearchEnd, k), Tolerance)
        /\ \A j \in 0..(k - 1) : DLess(Tolerance, HalvedTimes(SearchEnd, j))

\* C3: for any altitude profile the search ends after a bounded number of
\* iterations: the bracket starts as [0, 5000 km], 0 <= min <= max <= 5000 km
\* throughout, its width halves on every iteration, the loop stops once the
\* width is not above 1e-5 m, the midpoint of the final bracket is returned,
\* and a path never found above (never found at or below) tgt_h yields a
\* value within 1e-5 m of 0 (of 5000 km).
C3_BoundedSearch ==
    /\ DLeq(DZero, min_dist) /\ DLeq(min_dist, max_dist) /\ DLeq(max_dist, SearchEnd)
    /\ iters = 0 => (min_dist = DZero /\ max_dist = SearchEnd)
    /\ DSub(max_dist, min_dist) = HalvedTimes(SearchEnd, iters)
    /\ DEven(DAdd(min_dist, max_dist))
    /\ iters <= IterationBound
    /\ bpc \in {"loop", "done"}
    /\ bpc = "done" =>
          /\ DLeq(DSub(max_dist, min_dist), Tolerance)
          /\ iters > 0 => DLess(Tolerance, DSub(prev[2], prev[1]))
          /\ ret = Midpoint(min_dist, max_dist)
          /\ above = iters => Within(ret, DZero)
          /\ above = 0 => Within(ret, SearchEnd)

\* A search of a non-monotonic path that never crosses tgt_h, ended at the
\* iteration bound.
C3_Witness ==
    /\ bpc = "done"
    /\ iters = IterationBound
    /\ above = iters
    /\ ~NonDecreasing(ray) /\ ~NonIncreasing(ray)
    /\ ret # DZero

\* find_dist_for_h as a function agrees with the loop run step by step.
BisectAgrees == bpc = "done" => ret = find_dist_for_h(ray, tgt_h)

----------------------------------------------------------------------------
(* parse_arguments (params.rs:48-221)                                       *)

(* An option that takes a value is absent, or holds a text that parses as  *)
(* a number or does not: value_of(..) and str::parse::<f64>().             *)
None == [some |-> FALSE, num |-> FALSE, v |-> 0]

Text == [some |-> TRUE, num |-> FALSE, v |-> 0]

Num(n) == [some |-> TRUE, num |-> TRUE, v |-> n]

NoDir == [tag |-> "None", ang |-> 0, h |-> 0, dist |-> 0]

\* RayDir::Angle(ang), RayDir::Target { h, dist }, RayDir::Horizon
DirAngle(a) == [tag |-> "Angle", ang |-> a, h |-> 0, dist |-> 0]

DirTarget(h, d) == [tag |-> "Target", ang |-> 0, h |-> h, dist |-> d]

DirHorizon == [tag |-> "Horizon", ang |-> 0, h |-> 0, dist |-> 0]

\* Output::HAtDist(dist) and the four unit variants
Out(tag, d) == [tag |-> tag, dist |-> d]

\* .unwrap_or("1.0") of --start-h
DefaultStartH == 1

\* EarthShape::Spherical { radius: 6378000.0 }
DefaultRadius == 6378000

Flat == [tag |-> "Flat", radius |-> 0]

Spherical(r) == [tag |-> "Spherical", radius |-> r]

\* kilometres to metres: the `* 1e3` of --tgt-dist, --radius, --output-dist
KmToM(km) == km * 1000

Panic(msg) ==
    [status |-> "panic", msg |-> msg,
     ray |-> [start_h |-> 0, dir |-> NoDir],
     env |-> [shape |-> Flat, atmosphere |-> "none"],
     straight |-> FALSE, output |-> <<>>]

\* params.rs:139-144
StartHOf(m) == IF m.start_h.some THEN m.start_h ELSE Num(DefaultStartH)

\* RayDirOf with horizon mode conflicting with the three direction options
RayDirStrict(m) ==
    LET horizon == m.output_horizon \/ m.output_horizon_dist
        given == m.start_angle.some \/ m.target_h.some \/ m.target_dist.some
    IN  IF horizon /\ given
        THEN [ok |-> FALSE, dir |-> NoDir,
              msg |-> "Conflicting options detected (--start-angle, --tgt-h, --tgt-dist)"]
        ELSE IF horizon THEN [ok |-> TRUE, dir |-> DirHorizon, msg |-> ""]
        ELSE IF m.start_angle.some /\ ~m.target_h.some /\ ~m.target_dist.some
        THEN IF m.start_angle.num
             THEN [ok |-> TRUE, dir |-> DirAngle(m.start_angle.v), msg |-> ""]
             ELSE [ok |-> FALSE, dir |-> NoDir,
                   msg |-> "Invalid angle passed to --start-angle"]
        ELSE IF ~m.start_angle.some /\ m.target_h.some /\ m.target_dist.some
        THEN IF ~m.target_h.num
             THEN [ok |-> FALSE, dir |-> NoDir,
                   msg |-> "Invalid altitude passed to --tgt-h"]
             ELSE IF ~m.target_dist.num
             THEN [ok |-> FALSE, dir |-> NoDir,
                   msg |-> "Invalid distance passed to --tgt-dist"]
             ELSE [ok |-> TRUE, msg |-> "",
                   dir |-> DirTarget(m.target_h.v, KmToM(m.target_dist.v))]
        ELSE IF ~given
        THEN [ok |-> FALSE, dir |-> NoDir, msg |-> "No ray direction chosen!"]
        ELSE [ok |-> FALSE, dir |-> NoDir,
              msg |-> "Conflicting options detected (--start-angle, --tgt-h, --tgt-dist)"]

\* params.rs:149-170: the direction, or the panic message
RayDirOf(m) ==
    IF m.output_horizon \/ m.output_horizon_dist
    THEN [ok |-> TRUE, dir |-> DirHorizon, msg |-> ""]
    ELSE IF m.start_angle.some /\ ~m.target_h.some /\ ~m.target_dist.some
    THEN IF m.start_angle.num
         THEN [ok |-> TRUE, dir |-> DirAngle(m.start_angle.v), msg |-> ""]
         ELSE [ok |-> FALSE, dir |-> NoDir,
               msg |-> "Invalid angle passed to --start-angle"]
    ELSE IF ~m.start_angle.some /\ m.target_h.some /\ m.target_dist.some
    THEN IF ~m.target_h.num
         THEN [ok |-> FALSE, dir |-> NoDir,
               msg |-> "Invalid altitude passed to --tgt-h"]
         ELSE IF ~m.target_dist.num
         THEN [ok |-> FALSE, dir |-> NoDir,
               msg |-> "Invalid distance passed to --tgt-dist"]
         ELSE [ok |-> TRUE, msg |-> "",
               dir |-> DirTarget(m.target_h.v, KmToM(m.target_dist.v))]
    ELSE IF ~m.start_angle.some /\ ~m.target_h.some /\ ~m.target_dist.some
    THEN [ok |-> FALSE, dir |-> NoDir, msg |-> "No ray direction chosen!"]
    ELSE [ok |-> FALSE, dir |-> NoDir,
          msg |-> "Conflicting options detected (--start-angle, --tgt-h, --tgt-dist)"]

\* params.rs:176-184: the shape, or the panic message
ShapeOf(m) ==
    IF ~m.flat /\ ~m.radius.some
    THEN [ok |-> TRUE, shape |-> Spherical(DefaultRadius), msg |-> ""]
    ELSE IF m.flat /\ ~m.radius.some
    THEN [ok |-> TRUE, shape |-> Flat, msg |-> ""]
    ELSE IF ~m.flat
    THEN IF m.radius.num
         THEN [ok |-> TRUE, shape |-> Spherical(KmToM(m.radius.v)), msg |-> ""]
         ELSE [ok |-> FALSE, shape |-> Flat, msg |-> "Invalid radius passed"]
    ELSE [ok |-> FALSE, shape |-> Flat,
          msg |-> "Conflicting Earth shape options chosen!"]

\* params.rs:186-189, 239-248: atmosphere is "none" (no --atmosphere),
\* "file" (a file that loads) or "unreadable" (get_atmosphere panics)
AtmosphereOf(m) ==
    IF m.atmosphere = "none" THEN [ok |-> TRUE, atm |-> "us76", msg |-> ""]
    ELSE IF m.atmosphere = "file" THEN [ok |-> TRUE, atm |-> "from_def", msg |-> ""]
    ELSE [ok |-> FALSE, atm |-> "none", msg |-> "couldn't open the config file"]

\* OutputOf with --output-horizon taking precedence over
\* --output-horizon-dist
OutputHorizonFirst(m) ==
    LET pushed ==
            (IF m.output_dist.some /\ m.output_dist.num
                THEN <<Out("HAtDist", KmToM(m.output_dist.v))>> ELSE <<>>)
            \o (IF m.output_ang THEN <<Out("Angle", 0)>> ELSE <<>>)
            \o (IF m.output_astronomical THEN <<Out("Astronomical", 0)>> ELSE <<>>)
    IN  IF m.output_horizon THEN <<Out("HorizonAngle", 0)>>
        ELSE IF m.output_horizon_dist THEN <<Out("HorizonDistance", 0)>>
        ELSE pushed

\* params.rs:191-209
OutputOf(m) ==
    LET pushed ==
            (IF m.output_dist.some /\ m.output_dist.num
                THEN <<Out("HAtDist", KmToM(m.output_dist.v))>> ELSE <<>>)
            \o (IF m.output_ang THEN <<Out("Angle", 0)>> ELSE <<>>)
            \o (IF m.output_astronomical THEN <<Out("Astronomical", 0)>> ELSE <<>>)
        horizon == IF m.output_horizon THEN <<Out("HorizonAngle", 0)>> ELSE pushed
    IN  IF m.output_horizon_dist THEN <<Out("HorizonDistance", 0)>> ELSE horizon

parse_arguments(m) ==
    LET sh == StartHOf(m)
        rd == RayDirOf(m)
        shp == ShapeOf(m)
        atmo == AtmosphereOf(m)
    IN  IF ~sh.num THEN Panic("Invalid altitude passed to start-h")
        ELSE IF ~rd.ok THEN Panic(rd.msg)
        ELSE IF ~shp.ok THEN Panic(shp.msg)
        ELSE IF ~atmo.ok THEN Panic(atmo.msg)
        ELSE [status |-> "ok", msg |-> "",
              ray |-> [start_h |-> sh.v, dir |-> rd.dir],
              env |-> [shape |-> shp.shape, atmosphere |-> atmo.atm],
              straight |-> m.straight,
              output |-> OutputOf(m)]

----------------------------------------------------------------------------
(* create_path (params.rs:223-237)                                          *)

(* Angles are whole numbers of milliradians (of millidegrees once converted *)
(* to degrees); --start-angle is given in whole degrees.                    *)

\* f64::to_radians: x * (pi / 180)
ToRadians(deg) == (deg * 174533) \div 10000

\* f64::to_degrees: x * (180 / pi), truncated toward zero
ToDegrees(rad) ==
    IF rad >= 0 THEN (rad * 57296) \div 1000 ELSE -(((-rad) * 57296) \div 1000)

NoCall ==
    [fn |-> "none", start_h |-> 0, ang |-> 0, tgt_h |-> 0, tgt_dist |-> 0,
     straight |-> FALSE]

\* env.cast_ray(start_h, ang, straight)
CastRay(h, a, s) ==
    [fn |-> "cast_ray", start_h |-> h, ang |-> a, tgt_h |-> 0, tgt_dist |-> 0,
     straight |-> s]

\* env.cast_ray_target(start_h, tgt_h, tgt_dist, straight)
CastRayTarget(h, th, td, s) ==
    [fn |-> "cast_ray_target", start_h |-> h, ang |-> 0, tgt_h |-> th,
     tgt_dist |-> td, straight |-> s]

\* create_path with the horizon ray cast from the starting altitude
create_path_from_start(p) ==
    IF p.ray.dir.tag = "Angle"
    THEN CastRay(p.ray.start_h, ToRadians(p.ray.dir.ang), p.straight)
    ELSE IF p.ray.dir.tag = "Target"
    THEN CastRayTarget(p.ray.start_h, p.ray.dir.h, p.ray.dir.dist, p.straight)
    ELSE CastRay(p.ray.start_h, 0, p.straight)

\* pub fn create_path(params)
create_path(p) ==
    IF p.ray.dir.tag = "Angle"
    THEN CastRay(p.ray.start_h, ToRadians(p.ray.dir.ang), p.straight)
    ELSE IF p.ray.dir.tag = "Target"
    THEN CastRayTarget(p.ray.start_h, p.ray.dir.h, p.ray.dir.dist, p.straight)
    ELSE CastRay(0, 0, p.straight)

----------------------------------------------------------------------------
(* main (main.rs:22-102).  --verbose selects the wording of the printed     *)
(* lines, not the numbers in them: the model keeps the numbers.             *)

\* Path::angle_at_dist of the library, on the pieces of the profile
angle_at_dist(p, d) ==
    IF DLess(d, p.c1) THEN p.a1
    ELSE IF DLess(d, p.c2) THEN p.a2
    ELSE p.a3

\* A distance as whole metres, for the arithmetic of main
DistToMetres(d) == d[1] \div HiPerMetre

\* dist_to_200km / radius, in milliradians
DistOverRadius(d, radius) == DistToMetres(d) \div (radius \div 1000)

\* find_dist_for_h(&*ray, 2e5)
AstroBoundary == 200000

\* Deflection with the correction taken at another distance
DeflectionOtherDist(p, prm) ==
    LET start_ang == angle_at_dist(p, DZero)
        dist_to_200km == find_dist_for_h(p, AstroBoundary)
        final_ang == angle_at_dist(p, dist_to_200km)
    IN  IF prm.env.shape.tag = "Spherical"
        THEN start_ang - final_ang
                + DistOverRadius(find_dist_for_h(p, prm.ray.start_h), prm.env.shape.radius)
        ELSE start_ang - final_ang

\* main.rs:63-70
Deflection(p, prm) ==
    LET start_ang == angle_at_dist(p, DZero)
        dist_to_200km == find_dist_for_h(p, AstroBoundary)
        final_ang == angle_at_dist(p, dist_to_200km)
    IN  IF prm.env.shape.tag = "Spherical"
        THEN start_ang - final_ang + DistOverRadius(dist_to_200km, prm.env.shape.radius)
        ELSE start_ang - final_ang

\* main.rs:80-88
HorizonAngleOf(p, prm) ==
    LET dist_to_target_h == find_dist_for_h(p, prm.ray.start_h)
        ang == angle_at_dist(p, dist_to_target_h)
    IN  -ToDegrees(ang)

\* main.rs:89-99: dist_to_target_h / 1000.0
HorizonDistanceOf(p, prm) ==
    DistToMetres(find_dist_for_h(p, prm.ray.start_h)) \div 1000

\* The number one arm of the match prints (main.rs:44-100)
Render(o, p, prm) ==
    IF o.tag = "HAtDist" THEN h_at_dist(p, Metres(o.dist))
    ELSE IF o.tag = "Angle" THEN ToDegrees(angle_at_dist(p, DZero))
    ELSE IF o.tag = "Astronomical" THEN ToDegrees(Deflection(p, prm))
    ELSE IF o.tag = "HorizonAngle" THEN HorizonAngleOf(p, prm)
    ELSE HorizonDistanceOf(p, prm)

\* The values of options that take one
StartHArgs == {None, Text, Num(100)}

StartAngleArgs == {None, Text, Num(2)}

TargetHArgs == {None, Text, Num(50)}

TargetDistArgs == {None, Text, Num(10)}

RadiusArgs == {None, Text, Num(7000)}

OutputDistArgs == {None, Text, Num(10)}

AtmosphereArgs == {"none", "unreadable"}

Matches ==
    [start_h : StartHArgs, start_angle : StartAngleArgs,
     target_h : TargetHArgs, target_dist : TargetDistArgs,
     radius : RadiusArgs, flat : BOOLEAN, atmosphere : AtmosphereArgs,
     output_dist : OutputDistArgs, output_ang : BOOLEAN,
     output_horizon : BOOLEAN, output_horizon_dist : BOOLEAN,
     output_astronomical : BOOLEAN, straight : BOOLEAN]

\* What the library makes of the cast: rising rays, one that never reaches
\* 200 km, with angles that differ from piece to piece.
Worlds ==
    { [c1 |-> <<307200, 12345>>, c2 |-> <<200000001, 7>>,
       h1 |-> 0, h2 |-> 150, h3 |-> 300000, a1 |-> 0, a2 |-> 3, a3 |-> 40],
      [c1 |-> Metres(10000), c2 |-> Metres(2500000),
       h1 |-> 100, h2 |-> 100, h3 |-> 100, a1 |-> 35, a2 |-> 20, a3 |-> -7] }

NoPath == [call |-> NoCall, prof |-> NoProfile]

NoMatches ==
    [start_h |-> None, start_angle |-> None, target_h |-> None,
     target_dist |-> None, radius |-> None, flat |-> FALSE,
     atmosphere |-> "none", output_dist |-> None, output_ang |-> FALSE,
     output_horizon |-> FALSE, output_horizon_dist |-> FALSE,
     output_astronomical |-> FALSE, straight |-> FALSE]

MainStart(ms, ws) ==
    /\ matches \in ms
    /\ world \in ws
    /\ params = Panic("")
    /\ path = NoPath
    /\ mpc = "start"
    /\ outi = 1
    /\ printed = <<>>

\* let params = parse_arguments();
ParseArguments ==
    /\ mpc = "start"
    /\ params' = parse_arguments(matches)
    /\ mpc' = IF params'.status = "ok" THEN "parsed" ELSE "aborted"
    /\ UNCHANGED <<matches, world, path, outi, printed>>
    /\ UNCHANGED <<bisectVars, rayVars>>

\* let ray = create_path(&params);
CreatePath ==
    /\ mpc = "parsed"
    /\ path' = [call |-> create_path(params), prof |-> world]
    /\ mpc' = "output"
    /\ UNCHANGED <<matches, world, params, outi, printed>>
    /\ UNCHANGED <<bisectVars, rayVars>>

\* one turn of `for output in &params.output`
PrintOutput ==
    /\ mpc = "output"
    /\ outi <= Len(params.output)
    /\ printed' = Append(printed,
                         [tag |-> params.output[outi].tag,
                          value |-> Render(params.output[outi], path.prof, params)])
    /\ outi' = outi + 1
    /\ UNCHANGED <<matches, world, params, path, mpc>>
    /\ UNCHANGED <<bisectVars, rayVars>>

\* the end of main
Exit ==
    /\ mpc = "output"
    /\ outi > Len(params.output)
    /\ mpc' = "done"
    /\ UNCHANGED <<matches, world, params, path, outi, printed>>
    /\ UNCHANGED <<bisectVars, rayVars>>

MainNext == ParseArguments \/ CreatePath \/ PrintOutput \/ Exit


----------------------------------------------------------------------------
(* Properties of parse_arguments, create_path and main                      *)

Parsed == mpc # "start" /\ params.status = "ok"

HorizonMode(m) == m.output_horizon \/ m.output_horizon_dist

Tags(seq) == [i \in DOMAIN seq |-> seq[i].tag]

\* start_angle - final_angle [+ dist / radius], both taken with the one
\* dist = find_dist_for_h(path, 200 km)
AstroFormula(p, prm) ==
    LET dist == find_dist_for_h(p, 200000)
        plain == angle_at_dist(p, DZero) - angle_at_dist(p, dist)
    IN  IF prm.env.shape.tag = "Flat" THEN plain
        ELSE plain + DistOverRadius(dist, prm.env.shape.radius)

\* C4, as stated: the astronomical output equals start_angle - final_angle
\* for Flat and start_angle - final_angle + dist/radius for Spherical.
C4_OutputIsDeflection ==
    \A i \in DOMAIN printed :
        printed[i].tag = "Astronomical"
            => printed[i].value = AstroFormula(path.prof, params)

\* C4, amended: the astronomical output is that angle converted from radians
\* to degrees: to_degrees(start_angle - final_angle) for Flat,
\* to_degrees(start_angle - final_angle + dist/radius) for Spherical, with
\* the same dist in final_angle and in the correction.
C4_OutputIsDeflectionInDegrees ==
    \A i \in DOMAIN printed :
        printed[i].tag = "Astronomical"
            => printed[i].value = ToDegrees(AstroFormula(path.prof, params))

\* An astronomical line printed for a spherical Earth, with a correction
\* term and a start angle that differs from the final one.
C4_Witness ==
    /\ mpc = "done"
    /\ \E i \in DOMAIN printed : printed[i].tag = "Astronomical"
    /\ params.env.shape.tag = "Spherical"
    /\ DistOverRadius(find_dist_for_h(path.prof, 200000), params.env.shape.radius) > 0
    /\ angle_at_dist(path.prof, DZero)
          # angle_at_dist(path.prof, find_dist_for_h(path.prof, 200000))
    /\ find_dist_for_h(path.prof, 200000)
          # find_dist_for_h(path.prof, params.ray.start_h)

\* The outputs the command line asks for (an --output-dist whose value is
\* no number asks for nothing), in the order parse_arguments looks at them.
RequestedTags(m) ==
    (IF m.output_dist.some /\ m.output_dist.num THEN <<"HAtDist">> ELSE <<>>)
    \o (IF m.output_ang THEN <<"Angle">> ELSE <<>>)
    \o (IF m.output_astronomical THEN <<"Astronomical">> ELSE <<>>)
    \o (IF m.output_horizon THEN <<"HorizonAngle">> ELSE <<>>)
    \o (IF m.output_horizon_dist THEN <<"HorizonDistance">> ELSE <<>>)

\* C5, as stated: for every subset of the five output flags the output list
\* holds one entry for each requested output, and main prints one value for
\* each.
C5_EveryRequestedOutput ==
    /\ Parsed => Tags(params.output) = RequestedTags(matches)
    /\ mpc = "done" => Tags(printed) = RequestedTags(matches)

\* The non-horizon outputs that parse_arguments keeps.
PlainTags(m) ==
    (IF m.output_dist.some /\ m.output_dist.num THEN <<"HAtDist">> ELSE <<>>)
    \o (IF m.output_ang THEN <<"Angle">> ELSE <<>>)
    \o (IF m.output_astronomical THEN <<"Astronomical">> ELSE <<>>)

\* C5, amended: whenever parse_arguments returns, with no horizon flag the
\* output list holds, in this order, one entry for each of --output-dist
\* (if its value parses as a number; in metres), --output-ang and
\* --output-astronomical that is present; with a horizon flag the list is
\* the one horizon output (HorizonDistance if --output-horizon-dist is
\* present, else HorizonAngle) and every other requested output is dropped;
\* main prints one value for each entry of the list, in order.
C5_OutputsKept ==
    /\ (Parsed /\ ~HorizonMode(matches)) =>
          /\ Tags(params.output) = PlainTags(matches)
          /\ \A i \in DOMAIN params.output :
                params.output[i].tag = "HAtDist"
                    => params.output[i].dist = 1000 * matches.output_dist.v
    /\ (Parsed /\ HorizonMode(matches)) =>
          Tags(params.output) =
              IF matches.output_horizon_dist THEN <<"HorizonDistance">>
              ELSE <<"HorizonAngle">>
    /\ mpc = "output" => Tags(printed) = SubSeq(Tags(params.output), 1, outi - 1)
    /\ mpc = "done" => Tags(printed) = Tags(params.output)

\* A run that printed the three outputs that combine.
C5_Witness ==
    /\ mpc = "done"
    /\ Tags(printed) = <<"HAtDist", "Angle", "Astronomical">>

\* The direction options the command line supplies.
AngleGiven(m) == m.start_angle.some

PairGiven(m) == m.target_h.some /\ m.target_dist.some

PairIncomplete(m) == m.target_h.some # m.target_dist.some

Alternatives(m) ==
    (IF AngleGiven(m) THEN 1 ELSE 0) + (IF PairGiven(m) THEN 1 ELSE 0)
        + (IF HorizonMode(m) THEN 1 ELSE 0)

DirectionMessages ==
    { "No ray direction chosen!",
      "Conflicting options detected (--start-angle, --tgt-h, --tgt-dist)",
      "Invalid angle passed to --start-angle",
      "Invalid altitude passed to --tgt-h",
      "Invalid distance passed to --tgt-dist" }

\* C6, as stated: parse_arguments yields a direction only when exactly one
\* of launch angle, complete target pair and horizon mode is supplied, and
\* aborts for every combination that supplies none, an incomplete pair or
\* more than one.
C6_ExactlyOneDirection ==
    mpc # "start" =>
        /\ params.status = "ok" =>
              (Alternatives(matches) = 1 /\ ~PairIncomplete(matches))
        /\ (Alternatives(matches) # 1 \/ PairIncomplete(matches)) =>
              params.status = "panic"

\* C6, amended: without a horizon flag, parse_arguments yields a direction
\* only when exactly one of --start-angle and the complete pair --tgt-h,
\* --tgt-dist is supplied, and aborts when none, an incomplete pair or both
\* are supplied; with a horizon flag the direction is Horizon whatever of
\* --start-angle, --tgt-h, --tgt-dist is supplied: they are ignored and no
\* abort is due to them.
C6_DirectionChoice ==
    mpc # "start" =>
        /\ ~HorizonMode(matches) =>
              /\ params.status = "ok" =>
                    /\ Alternatives(matches) = 1 /\ ~PairIncomplete(matches)
                    /\ params.ray.dir.tag =
                          IF AngleGiven(matches) THEN "Angle" ELSE "Target"
              /\ (Alternatives(matches) # 1 \/ PairIncomplete(matches)) =>
                    params.status = "panic"
        /\ HorizonMode(matches) =>
              /\ params.status = "ok" => params.ray.dir = DirHorizon
              /\ params.status = "panic" => params.msg \notin DirectionMessages

\* Horizon mode accepted together with a launch angle and a target pair.
C6_Witness ==
    /\ Parsed
    /\ HorizonMode(matches)
    /\ AngleGiven(matches) /\ PairGiven(matches)
    /\ params.ray.dir = DirHorizon

\* C10: in horizon mode the starting altitude and --start-angle, --tgt-h,
\* --tgt-dist are not used to cast the ray: create_path casts from altitude
\* 0 with angle 0; the output list is exactly one horizon output
\* (HorizonDistance if --output-horizon-dist is present, else HorizonAngle);
\* and the value printed is taken at find_dist_for_h(path, start_h).
C10_HorizonMode ==
    (Parsed /\ HorizonMode(matches)) =>
        /\ params.output =
              <<Out(IF matches.output_horizon_dist THEN "HorizonDistance"
                    ELSE "HorizonAngle", 0)>>
        /\ mpc \in {"output", "done"} =>
              /\ path.call.fn = "cast_ray"
              /\ path.call.start_h = 0 /\ path.call.ang = 0
              /\ path.call.straight = matches.straight
        /\ \A i \in DOMAIN printed :
              LET d == find_dist_for_h(path.prof, params.ray.start_h)
              IN  printed[i].value =
                      IF printed[i].tag = "HorizonDistance"
                      THEN DistToMetres(d) \div 1000
                      ELSE -ToDegrees(angle_at_dist(path.prof, d))

\* A horizon distance printed for a configured starting altitude of 100 m,
\* with a launch angle and a target pair on the command line.
C10_Witness ==
    /\ mpc = "done"
    /\ matches.output_horizon_dist
    /\ matches.start_h = Num(100)
    /\ AngleGiven(matches) /\ PairGiven(matches)
    /\ Len(printed) = 1
    /\ printed[1].tag = "HorizonDistance"
    /\ printed[1].value > 0
    /\ find_dist_for_h(path.prof, 100) # find_dist_for_h(path.prof, 200000)

----------------------------------------------------------------------------
(* The ray state (ray_state.rs)                                             *)

(* x, h, dr, d2r and step amounts are whole numbers (metres, metres per    *)
(* metre).  NonFinite stands for the inf and NaN of f64: it is what a      *)
(* division by zero yields, and every operation on it yields it.           *)
NonFinite == -(2^30)

Finite(a) == a # NonFinite

FAdd(a, b) == IF Finite(a) /\ Finite(b) THEN a + b ELSE NonFinite

FMul(a, b) == IF Finite(a) /\ Finite(b) THEN a * b ELSE NonFinite

Abs(a) == IF a < 0 THEN -a ELSE a

\* a / b, truncated toward zero
FDiv(a, b) ==
    IF ~(Finite(a) /\ Finite(b)) \/ b = 0 THEN NonFinite
    ELSE IF (a < 0) = (b < 0) THEN Abs(a) \div Abs(b)
    ELSE -(Abs(a) \div Abs(b))

(* The Atmosphere (external: air::Atmosphere) is two layers of constant    *)
(* refractivity meeting at atm.boundary metres: low below it, high from it *)
(* up, in whole units of n - 1.  Altitudes handed to it are in             *)
(* centimetres, so that h - 0.01 and h + 0.01 are exact.                   *)
\* fn n_minus_1(atm, h)
n_minus_1(a, hcm) == IF hcm < 100 * a.boundary THEN a.low ELSE a.high

\* pub fn n(atm, h)
n(a, hcm) == n_minus_1(a, hcm) + 1

\* fn dn(atm, h): epsilon = 0.01, (n2 - n1) / (2.0 * epsilon)
dn(a, hcm) ==
    LET epsilon == 1
        n1 == n_minus_1(a, hcm - epsilon)
        n2 == n_minus_1(a, hcm + epsilon)
    IN  (n2 - n1) * 50

Deriv(dx, dr, d2r) == [dx |-> dx, dr |-> dr, d2r |-> d2r]

\* pub fn calc_derivative_spherical(atm, radius, state)
calc_derivative_spherical(a, radius, st) ==
    LET dr == st.dr
        h == st.h
        nr == n(a, 100 * h)
        dnr == dn(a, 100 * h)
        r == h + radius
        d2r == FAdd(FAdd(FAdd(FDiv(FMul(FMul(dr, dr), dnr), nr),
                              FDiv(FMul(FMul(r, r), dnr), nr)),
                         FDiv(FMul(FMul(2, dr), dr), r)),
                    r)
    IN  Deriv(1, dr, d2r)

\* calc_derivative_flat with the slope left out of the derivative
calc_derivative_flat_no_slope(a, st) ==
    LET dr == st.dr
        h == st.h
        nr == n(a, 100 * h)
        dnr == dn(a, 100 * h)
        d2r == FMul(FDiv(dnr, nr), FAdd(1, FMul(dr, dr)))
    IN  Deriv(1, 0, d2r)

\* calc_derivative_flat with the geometric term of the spherical equation
calc_derivative_flat_curved(a, st) ==
    LET dr == st.dr
        h == st.h
        nr == n(a, 100 * h)
        dnr == dn(a, 100 * h)
        d2r == FAdd(FMul(FDiv(dnr, nr), FAdd(1, FMul(dr, dr))), 1)
    IN  Deriv(1, dr, d2r)

\* pub fn calc_derivative_flat(atm, state)
calc_derivative_flat(a, st) ==
    LET dr == st.dr
        h == st.h
        nr == n(a, 100 * h)
        dnr == dn(a, 100 * h)
        d2r == FMul(FDiv(dnr, nr), FAdd(1, FMul(dr, dr)))
    IN  Deriv(1, dr, d2r)

\* the derivative function bound to the geometry
calc_derivative(sh, a, st) ==
    IF sh.tag = "Spherical" THEN calc_derivative_spherical(a, sh.radius, st)
    ELSE calc_derivative_flat(a, st)

RayState(x, h, dr) == [x |-> x, h |-> h, dr |-> dr]

\* impl State for RayState: fn shift_in_place(&mut self, dir, amount)
shift_in_place(st, dir, amount) ==
    RayState(FAdd(st.x, FMul(dir.dx, amount)),
             FAdd(st.h, FMul(dir.dr, amount)),
             FAdd(st.dr, FMul(dir.d2r, amount)))

FiniteState(st) == Finite(st.x) /\ Finite(st.h) /\ Finite(st.dr)

\* Bounds of the model
MaxSteps == 3

MaxSlope == 50

MaxRadial == 40

\* The states from which the model takes a further step.
InBox(sh, st) ==
    /\ FiniteState(st)
    /\ Abs(st.dr) <= MaxSlope
    /\ sh.tag = "Spherical" => Abs(st.h + sh.radius) <= MaxRadial

Shapes == {Flat, Spherical(10), Spherical(30)}

Atmospheres ==
    { [low |-> 0, high |-> 0, boundary |-> 0],     \* uniform: dn = 0
      [low |-> 1, high |-> 0, boundary |-> 0],     \* thinning at 0 m
      [low |-> 1, high |-> 0, boundary |-> 100] }  \* thinning at 100 m

StartAlts == {-20, -10, 0, 100}

StartSlopes == {-1, 0, 1}

StepAmounts == {-1, 1, 2, 5000}

NoStep ==
    [amount |-> 0, dir |-> Deriv(0, 0, 0), from |-> RayState(0, 0, 0),
     forward |-> TRUE]

RayStart(shapes, atms, alts, slopes) ==
    /\ shape \in shapes
    /\ atm \in atms
    /\ \E h0 \in alts, dr0 \in slopes : state = RayState(0, h0, dr0)
    /\ start = state
    /\ last = NoStep
    /\ steps = 0
    /\ status = "running"

\* One step of an integrator: the derivative at the state, and a shift
\* along it.
Step ==
    /\ steps < MaxSteps
    /\ InBox(shape, state)
    /\ \E amount \in StepAmounts :
         LET dir == calc_derivative(shape, atm, state)
             next == shift_in_place(state, dir, amount)
         IN  /\ state' = next
             /\ last' = [amount |-> amount, dir |-> dir, from |-> state,
                          forward |-> last.forward /\ amount >= 0]
             /\ status' = IF FiniteState(next) THEN "running" ELSE "non_finite"
    /\ steps' = steps + 1
    /\ UNCHANGED <<shape, atm, start>>
    /\ UNCHANGED <<bisectVars, mainVars>>

RayNext == Step

----------------------------------------------------------------------------
(* Properties of the ray state                                              *)

Radial(st) == st.h + shape.radius

\* C7: for Spherical shape, evaluating the derivative on a state with
\* radius + h <= 0, or taking a step that produces such a state, is
\* reported as a domain error.
C7_DomainErrorReported ==
    (/\ shape.tag = "Spherical"
     /\ steps > 0
     /\ \/ Radial(last.from) <= 0
        \/ (Finite(state.h) /\ Radial(state) <= 0))
    => status = "domain_error"

Uniform(a) == a.low = a.high

\* C8: for Flat shape with zero refractive gradient the derivative has
\* d2r = 0, so the slope never changes and h = start_h + x * dr after every
\* step; with dr = 0 and start_h = 100 m the altitude at x = 10,000 m is
\* exactly 100 m.
C8_FlatUniformIsStraight ==
    (shape.tag = "Flat" /\ Uniform(atm)) =>
        /\ steps > 0 => last.dir.d2r = 0
        /\ state.dr = start.dr
        /\ state.h = start.h + state.x * start.dr
        /\ (start.dr = 0 /\ start.h = 100 /\ state.x = 10000) => state.h = 100

\* The scenario: launched level at 100 m, arrived at x = 10,000 m.
C8_Witness ==
    /\ shape.tag = "Flat" /\ Uniform(atm)
    /\ start = RayState(0, 100, 0)
    /\ steps >= 2
    /\ state.x = 10000
    /\ state.h = 100

\* C9: the derivative of either geometry has dx = 1 and dr equal to the
\* state's dr, so a step by amount a advances x by a and h by dr * a, and x
\* starts at 0 and never decreases while no amount is negative.
C9_UnitDxAndSlope ==
    /\ start.x = 0
    /\ steps = 0 => state = start
    /\ steps > 0 =>
          /\ last.dir.dx = 1
          /\ last.dir.dr = last.from.dr
          /\ state.x = last.from.x + last.amount
          /\ state.h = last.from.h + last.from.dr * last.amount
          /\ last.forward => (0 <= last.from.x /\ last.from.x <= state.x)

\* A second forward step on a sphere, along a sloping ray.
C9_Witness ==
    /\ shape.tag = "Spherical"
    /\ steps >= 2
    /\ last.forward
    /\ last.amount = 2
    /\ last.from.dr # 0
    /\ state.h # last.from.h

----------------------------------------------------------------------------
(* Specifications: one per part of the program; the other parts stay as    *)
(* they were constructed.                                                   *)

BisectIdle == BisectStart(NoProfile)

MainIdle == MainStart({NoMatches}, {NoProfile})

RayIdle == RayStart({Flat}, {[low |-> 0, high |-> 0, boundary |-> 0]}, {0}, {0})

BisectInit == (\E p \in BisectPaths : BisectStart(p)) /\ MainIdle /\ RayIdle

BisectSpec ==
    BisectInit /\ [][BisectNext]_vars

MainInit == MainStart(Matches, Worlds) /\ BisectIdle /\ RayIdle

MainSpec ==
    MainInit /\ [][MainNext]_vars

RayInit ==
    RayStart(Shapes, Atmospheres, StartAlts, StartSlopes) /\ BisectIdle /\ MainIdle

RaySpec ==
    RayInit /\ [][RayNext]_vars

====
